---- MODULE Spec2Model ----
(***************************************************************************)
(* A model of playground/fs.py: the lakeFS filesystem adapter              *)
(* (LakeFSNativeFS, LakeFSBufferedFile).                                   *)
(*                                                                         *)
(* Strings are sequences of one-symbol strings, so that partition,         *)
(* endswith, rstrip and rsplit are computed and not assumed:               *)
(*   "r/m/a" is <<"r", "/", "m", "/", "a">>.                               *)
(* Byte strings are sequences of small naturals.                           *)
(***************************************************************************)
EXTENDS Integers, Sequences, FiniteSets, TLC

VARIABLES
    objects,    \* the store: address <<repo, ref, key>> -> content (bytes)
    dircache,   \* self.dircache: the set of paths that hold a cached listing
    trace,      \* the store calls and invalidations of the operation that ran last
    lastOp,     \* the operation that ran last: name, argument, outcome, state before
    handles,    \* the LakeFSBufferedFile objects, by handle id
    ls          \* the _ls call in progress (see LsIdle)

vars == <<objects, dircache, trace, lastOp, handles, ls>>

-----------------------------------------------------------------------------
(* Strings                                                                 *)

SLASH == "/"

EmptyStr == <<>>

\* a path argument that is None
None == <<"None">>

\* an upload call without content
NoContent == <<-1>>

\* str.startswith / str.endswith
StartsWith(s, p) == Len(p) <= Len(s) /\ SubSeq(s, 1, Len(p)) = p

EndsWith(s, p) == Len(p) <= Len(s) /\ SubSeq(s, Len(s) - Len(p) + 1, Len(s)) = p

\* "/" in s
HasSlash(s) == \E i \in 1..Len(s) : s[i] = SLASH

\* index of the first / last "/" of s (0 when there is none)
FirstSlash(s) == IF HasSlash(s)
                 THEN CHOOSE i \in 1..Len(s) : s[i] = SLASH /\ \A j \in 1..(i - 1) : s[j] # SLASH
                 ELSE 0

LastSlash(s) == IF HasSlash(s)
                THEN CHOOSE i \in 1..Len(s) : s[i] = SLASH /\ \A j \in (i + 1)..Len(s) : s[j] # SLASH
                ELSE 0

\* str.partition("/"): <<head, tail>>; without a "/" the tail is empty
Partition(s) == IF HasSlash(s)
                THEN <<SubSeq(s, 1, FirstSlash(s) - 1), SubSeq(s, FirstSlash(s) + 1, Len(s))>>
                ELSE <<s, EmptyStr>>

\* str.rstrip("/") / str.lstrip("/")
RECURSIVE RStrip(_)
RStrip(s) == IF Len(s) > 0 /\ s[Len(s)] = SLASH THEN RStrip(SubSeq(s, 1, Len(s) - 1)) ELSE s

RECURSIVE LStrip(_)
LStrip(s) == IF Len(s) > 0 /\ s[1] = SLASH THEN LStrip(Tail(s)) ELSE s

\* a split on the first "/" only
_split_once(path) == <<Partition(path)[1], Partition(path)[2], EmptyStr>>

\* _split_path(path) -> (repo, ref, rest)
SplitRest(repo, p2) == <<repo, p2[1], p2[2]>>

SplitFirst(p1) == SplitRest(p1[1], Partition(p1[2]))

_split_path(path) == SplitFirst(Partition(path))

\* _remove_suffix(path, "/")
_remove_suffix(path) == IF ~EndsWith(path, <<SLASH>>) THEN path ELSE SubSeq(path, 1, Len(path) - 1)

\* f"{repo}/{ref}/{path}"
FullKey(repo, ref, path) == repo \o <<SLASH>> \o ref \o <<SLASH>> \o path

\* AbstractFileSystem._strip_protocol: the path without its trailing "/"s
\* (no model path carries the "abstract://" protocol prefix; root_marker is "")
_strip_protocol(path) == RStrip(path)

\* path.rsplit("/", 1)[0] when "/" in path, else the root marker ""
RSplitHead(p) == IF HasSlash(p) THEN SubSeq(p, 1, LastSlash(p) - 1) ELSE EmptyStr

\* AbstractFileSystem._parent
_parent(path) == RSplitHead(_strip_protocol(path))

-----------------------------------------------------------------------------
(* The filesystem state an operation works on, as a record                 *)
(*   [objects, dircache, trace, status]                                    *)
(* status is "ok" until a store call raises; an operation that has raised  *)
(* does nothing more.                                                      *)

Ok(st) == st.status = "ok"

Log(st, ev) == [st EXCEPT !.trace = Append(@, ev)]

Raise(st, err) == [st EXCEPT !.status = err]

\* a walk that stops after the first pop
PopOnly(cache, path) == cache \ {path}

\* while path: self.dircache.pop(path, None); path = self._parent(path)
RECURSIVE PopWalk(_, _)
PopWalk(cache, path) ==
    IF path = EmptyStr THEN cache ELSE PopWalk(cache \ {path}, _parent(path))

\* self.dircache.pop(path, None), then the walk
PopAll(cache, p) == PopWalk(cache \ {p}, p)

\* an eviction that drops every entry, whatever the path
EvictEverything(cache, path) == {}

\* invalidate_cache(path) on the cache
Evict(cache, path) ==
    IF path = None THEN {} ELSE PopAll(cache, LStrip(_strip_protocol(path)))

\* LakeFSNativeFS.invalidate_cache
invalidate_cache(st, path) ==
    IF ~Ok(st) THEN st
    ELSE [Log(st, <<"invalidate_cache", path>>) EXCEPT !.dircache = Evict(@, path)]

-----------------------------------------------------------------------------
(* The store client (self._client.objects): every call may raise           *)

Addr(repo, ref, key) == <<repo, ref, key>>

Without(objs, addrs) == [a \in (DOMAIN objs) \ addrs |-> objs[a]]

With(objs, addr, content) == [a \in (DOMAIN objs) \cup {addr} |-> IF a = addr THEN content ELSE objs[a]]

Range(seq) == {seq[i] : i \in 1..Len(seq)}

\* objects.delete_object(repo, ref, key), a the (repo, ref, key) of _split_path
delete_object(st, a, fail) ==
    IF ~Ok(st) THEN st
    ELSE IF fail THEN Raise(Log(st, <<"delete_object", a, "raised">>), "StoreError")
    ELSE [Log(st, <<"delete_object", a, "ok">>) EXCEPT !.objects = Without(@, {a})]

\* objects.delete_objects(repo, ref, files)
delete_objects(st, repo, ref, files, fail) ==
    IF ~Ok(st) THEN st
    ELSE IF fail THEN Raise(Log(st, <<"delete_objects", repo, ref, files, "raised">>), "StoreError")
    ELSE [Log(st, <<"delete_objects", repo, ref, files, "ok">>)
            EXCEPT !.objects = Without(@, {Addr(repo, ref, files[i]) : i \in 1..Len(files)})]

\* objects.upload_object(repo, ref, key, content=...): without content the object
\* the store makes is empty
upload_object(st, a, content, fail) ==
    IF ~Ok(st) THEN st
    ELSE IF fail THEN Raise(Log(st, <<"upload_object", a, content, "raised">>), "StoreError")
    ELSE [Log(st, <<"upload_object", a, content, "ok">>)
            EXCEPT !.objects = With(@, a, IF content = NoContent THEN <<>> ELSE content)]

-----------------------------------------------------------------------------
(* Delete                                                                  *)

\* _rm(path) for a str path
_rm_one(st, path, fail) ==
    invalidate_cache(delete_object(st, _split_path(path), fail), _parent(path))

\* _rm(path) for a list: for file in path: self._rm(file); element failAt raises
RECURSIVE _rm_from(_, _, _, _)
_rm_from(st, paths, i, failAt) ==
    IF i > Len(paths) \/ ~Ok(st) THEN st
    ELSE _rm_from(_rm_one(st, paths[i], failAt = i), paths, i + 1, failAt)

\* LakeFSNativeFS._rm; arg is [list |-> FALSE, path |-> p] or [list |-> TRUE, paths |-> <<..>>]
_rm(st, arg, failAt) ==
    IF arg.list THEN _rm_from(st, arg.paths, 1, failAt)
    ELSE _rm_one(st, arg.path, failAt = 1)

\* the ceiling on the keys of one delete_objects call
ChunkSize == 1000

Min(a, b) == IF a <= b THEN a ELSE b

NumChunks(n, num) == (n + num - 1) \div num

\* chunks that leave out a last, shorter chunk
chunks_whole(lst, num) ==
    [c \in 1..(Len(lst) \div num) |-> SubSeq(lst, (c - 1) * num + 1, c * num)]

\* chunks(lst, num): lst[i:i + num] for i in range(0, len(lst), num)
chunks(lst, num) ==
    [c \in 1..NumChunks(Len(lst), num) |-> SubSeq(lst, (c - 1) * num + 1, Min(c * num, Len(lst)))]

\* a loop that swallows what a call raises and goes on
RECURSIVE delete_chunks_swallow(_, _, _, _, _)
delete_chunks_swallow(st, a, cs, c, failAt) ==
    IF c > Len(cs) THEN st
    ELSE delete_chunks_swallow(
             [delete_objects(st, a[1], a[2], cs[c], failAt = c) EXCEPT !.status = "ok"],
             a, cs, c + 1, failAt)

\* for files in chunks(path_expand, 1000): delete_objects(repo, ref, files);
\* the call for chunk failAt raises
RECURSIVE delete_chunks(_, _, _, _, _)
delete_chunks(st, a, cs, c, failAt) ==
    IF c > Len(cs) \/ ~Ok(st) THEN st
    ELSE delete_chunks(delete_objects(st, a[1], a[2], cs[c], failAt = c), a, cs, c + 1, failAt)

\* path_expand = [_split_path(file)[2] for file in path_expand]
KeysOf(expanded) == [i \in 1..Len(expanded) |-> _split_path(expanded[i])[3]]

\* rm(path) for a str path; expanded is what expand_path(path, recursive, maxdepth)
\* returned
rm_one(st, path, expanded, failAt) ==
    invalidate_cache(
        delete_chunks(st, _split_path(path), chunks(KeysOf(expanded), ChunkSize), 1, failAt),
        _parent(path))

\* rm(path) for a list: for file in path: self.rm(file), each with recursive=False,
\* so that expand_path(file) is [file] stripped; element failAt raises
RECURSIVE rm_from(_, _, _, _)
rm_from(st, paths, i, failAt) ==
    IF i > Len(paths) \/ ~Ok(st) THEN st
    ELSE rm_from(rm_one(st, paths[i], <<_strip_protocol(paths[i])>>, IF failAt = i THEN 1 ELSE 0),
                 paths, i + 1, failAt)

\* LakeFSNativeFS.rm; arg as for _rm, a str path with its expansion
rm(st, arg, failAt) ==
    IF arg.list THEN rm_from(st, arg.paths, 1, failAt)
    ELSE rm_one(st, arg.path, arg.expanded, failAt)

-----------------------------------------------------------------------------
(* Upload                                                                  *)

\* put_file without its invalidation
put_file_no_invalidate(st, local, rpath, fail) ==
    IF local.isdir THEN st ELSE upload_object(st, _split_path(rpath), local.content, fail)

\* put_file(lpath, rpath): local is the local path's [isdir, content] when it is opened
\* (makedirs is AbstractFileSystem's, which does nothing)
put_file(st, local, rpath, fail) ==
    invalidate_cache(
        IF local.isdir THEN st ELSE upload_object(st, _split_path(rpath), local.content, fail),
        _parent(rpath))

\* pipe_file(path, value): the upload call is given no content
pipe_file(st, path, value, fail) ==
    invalidate_cache(upload_object(st, _split_path(path), NoContent, fail), _parent(path))

-----------------------------------------------------------------------------
(* LakeFSBufferedFile in write mode.  A file is a record                   *)
(*   path, blocksize, buffer, offset (-1 for None), forced, closed, loc:   *)
(*     the fields of AbstractBufferedFile;                                 *)
(*   tempfile: self._tempfile, the spool: the bytes its buffered writer    *)
(*     still holds (pybuf), the bytes of the named file (disk), whether it *)
(*     was created and whether it was closed (which deletes it);           *)
(*   written, uploads: history, all the bytes passed to write() and the    *)
(*     number of upload calls issued for the file.                         *)
(* Operators on files work on a pair [st, f] of filesystem state and file. *)

\* the size of the buffer of the spool's buffered writer (io.BufferedWriter);
\* it is the platform's, 8192 or the file's block size
WBufSize == 2

NoTemp == [created |-> FALSE, pybuf |-> <<>>, disk |-> <<>>, closed |-> FALSE]

Pair(st, f) == [st |-> st, f |-> f]

\* fs.open(path, "wb", block_size=blocksize): AbstractBufferedFile.__init__, then
\* self._tempfile = None
NewFile(path, blocksize) ==
    [path |-> _strip_protocol(path), blocksize |-> blocksize, buffer |-> <<>>, offset |-> -1,
     forced |-> FALSE, closed |-> FALSE, loc |-> 0, tempfile |-> NoTemp,
     written |-> <<>>, uploads |-> 0]

\* BufferedWriter.write(data) on the spool: data that fits the buffer stays in it;
\* otherwise the buffer is written out first, and data longer than the buffer
\* goes to the file directly
BufferedWrite(t, data) ==
    IF Len(data) <= WBufSize - Len(t.pybuf)
    THEN [t EXCEPT !.pybuf = @ \o data]
    ELSE IF Len(data) > WBufSize
    THEN [t EXCEPT !.disk = @ \o t.pybuf \o data, !.pybuf = <<>>]
    ELSE [t EXCEPT !.disk = @ \o t.pybuf, !.pybuf = data]

\* self._tempfile.close(): the buffer is written out, the file is deleted
TempClose(t) == [t EXCEPT !.disk = @ \o t.pybuf, !.pybuf = <<>>, !.closed = TRUE]

\* _initiate_upload
_initiate_upload(f) ==
    [f EXCEPT !.tempfile = [created |-> TRUE, pybuf |-> <<>>, disk |-> <<>>, closed |-> FALSE],
              !.loc = 0]

\* after self.fs.put_file(...) of _upload_chunk: self._tempfile.close(), unless it raised
AfterPut(put, f) ==
    Pair(put, IF Ok(put) THEN [f EXCEPT !.uploads = @ + 1, !.tempfile = TempClose(@)]
              ELSE [f EXCEPT !.uploads = @ + 1])

\* if final: self.fs.put_file(self._tempfile.name, self.path): put_file opens the
\* named file and reads what is in it
upload_final(sf, fail) ==
    AfterPut(put_file(sf.st, [isdir |-> FALSE, content |-> sf.f.tempfile.disk], sf.f.path, fail),
             sf.f)

\* an upload on every chunk
upload_always(sf, final, fail) == upload_final(sf, fail)

upload_when(sf, final, fail) == IF final THEN upload_final(sf, fail) ELSE sf

\* data = self.buffer.getvalue(); if data: self._tempfile.write(data)
spool(f) == IF f.buffer # <<>> THEN [f EXCEPT !.tempfile = BufferedWrite(@, f.buffer)] ELSE f

\* _upload_chunk(final)
_upload_chunk(sf, final, fail) == upload_when(Pair(sf.st, spool(sf.f)), final, fail)

\* flush: if self.offset is None: self.offset = 0; self._initiate_upload()
Initiated(f) == IF f.offset = -1 THEN [_initiate_upload(f) EXCEPT !.offset = 0] ELSE f

\* flush: if force: self.forced = True
Forced(f, force) == IF force THEN [f EXCEPT !.forced = TRUE] ELSE f

\* flush: self.offset += self.buffer.seek(0, 2); self.buffer = io.BytesIO()
AfterChunk(up) ==
    IF Ok(up.st) THEN [up EXCEPT !.f.offset = @ + Len(up.f.buffer), !.f.buffer = <<>>] ELSE up

\* AbstractBufferedFile.flush(force)
flush(sf, force, fail) ==
    IF ~force /\ Len(sf.f.buffer) < sf.f.blocksize THEN sf
    ELSE AfterChunk(_upload_chunk(Pair(sf.st, Initiated(Forced(sf.f, force))), force, fail))

\* write: if self.buffer.tell() >= self.blocksize: self.flush()
FlushIfFull(sf) == IF Len(sf.f.buffer) >= sf.f.blocksize THEN flush(sf, FALSE, FALSE) ELSE sf

\* AbstractBufferedFile.write(data), on a file neither closed nor force-flushed
write(sf, data) ==
    FlushIfFull(Pair(sf.st, [sf.f EXCEPT !.buffer = @ \o data, !.loc = @ + Len(data),
                                         !.written = @ \o data]))

\* close: self.closed = True, reached unless something raised
Closed(st, f) == Pair(st, IF Ok(st) THEN [f EXCEPT !.closed = TRUE] ELSE f)

\* close: self.fs.invalidate_cache(self.path);
\*        self.fs.invalidate_cache(self.fs._parent(self.path))
CloseInvalidate(fl) ==
    Closed(invalidate_cache(invalidate_cache(fl.st, fl.f.path), _parent(fl.f.path)), fl.f)

\* AbstractBufferedFile.close() in write mode
close(sf, fail) ==
    IF sf.f.closed THEN sf
    ELSE CloseInvalidate(IF ~sf.f.forced THEN flush(sf, TRUE, fail) ELSE sf)

\* fsspec's default block size stands above every write of the model
DefaultBlock == 5 * 1024 * 1024

ExistsAt(objs, a) ==
    \E o \in DOMAIN objs :
        /\ o[1] = a[1] /\ o[2] = a[2]
        /\ o[3] = a[3] \/ StartsWith(o[3], a[3] \o <<SLASH>>)

\* AbstractFileSystem.info(path), from ls(parent) and ls(path): the entry of that name
\* when a listing holds one; when ls(path) holds no entry of that name (for a path
\* the store does not hold, _ls returns [] and raises nothing), the stand-in
\* directory entry info falls back on; it raises only when a listing call raises
info(objs, path, lsRaises) ==
    IF lsRaises THEN "raised"
    ELSE IF ExistsAt(objs, _split_path(_strip_protocol(path))) THEN "entry"
    ELSE "directory"

\* AbstractFileSystem.exists(path): info(path) raised nothing
exists(objs, path, lsRaises) == info(objs, path, lsRaises) # "raised"

\* touch(path, truncate)
touch(st, path, truncate, lsRaises, fail) ==
    IF truncate \/ ~exists(st.objects, path, lsRaises)
    THEN invalidate_cache(close(Pair(st, NewFile(path, DefaultBlock)), fail).st, _parent(path))
    ELSE st

-----------------------------------------------------------------------------
(* Reading                                                                 *)

\* what a read that raised ValueError stands for
ReadError == <<-2>>

Max(a, b) == IF a >= b THEN a ELSE b

\* a slice bound as Python takes it: a negative one counts from the end, and all
\* are clipped to 0..len
SliceBound(i, len) == IF i < 0 THEN Max(len + i, 0) ELSE Min(i, len)

\* data[start:end]
PySlice(data, start, end) ==
    SubSeq(data, SliceBound(start, Len(data)) + 1, SliceBound(end, Len(data)))

\* LakeFSNativeFS.get_object(path, start, end), both bounds given
get_object_at(objs, a, start, end) ==
    IF a \notin DOMAIN objs THEN ReadError ELSE PySlice(objs[a], start, end)

get_object(objs, path, start, end) == get_object_at(objs, _split_path(path), start, end)

\* LakeFSBufferedFile._fetch_range(start, end) of a file on path that has size bytes
_fetch_range(objs, path, size, start, end) ==
    IF Max(start, 0) >= Min(size, end) \/ Max(start, 0) >= size THEN <<>>
    ELSE get_object(objs, path, Max(start, 0), Min(size, end))

\* LakeFSNativeFS.get_object(path, None, None): the whole object
get_object_full(objs, path) ==
    IF _split_path(path) \notin DOMAIN objs THEN ReadError ELSE objs[_split_path(path)]

\* a call that returns a value: the state after it and the value; a read that
\* failed leaves as ValueError
Value(st, v) == [st |-> IF v = ReadError THEN Raise(st, "ValueError") ELSE st, value |-> v]

\* self.fs.get_object(path, start, end) with its store call
read_object(st, path, start, end) ==
    Value(Log(st, <<"get_object", _split_path(path)>>), get_object(st.objects, path, start, end))

\* a range read that asks the store whatever the range
fetch_range_always(st, path, size, start, end) ==
    read_object(st, path, Max(start, 0), Min(size, end))

\* a range read that passes its bounds on as they are
fetch_range_unclamped(st, path, size, start, end) ==
    IF start >= end \/ start >= size THEN Value(st, <<>>)
    ELSE read_object(st, path, start, end)

\* LakeFSBufferedFile._fetch_range(start, end) with its store call, of a read-mode
\* file on path whose size is size
fetch_range(st, path, size, start, end) ==
    IF Max(start, 0) >= Min(size, end) \/ Max(start, 0) >= size THEN Value(st, <<>>)
    ELSE read_object(st, path, Max(start, 0), Min(size, end))

-----------------------------------------------------------------------------
(* created                                                                 *)

\* the seconds of a day
DaySeconds == 86400

\* datetime.date.fromtimestamp(timestamp): the calendar day the timestamp falls on in
\* local time (tz seconds east of UTC), counted from the epoch; a date holds no time
\* of day
date_fromtimestamp(timestamp, tz) == [day |-> (timestamp + tz) \div DaySeconds]

NoDate == [day |-> -1]

\* repositories.get_repository(repo)
get_repository(st, repo, fail) ==
    IF fail THEN Raise(Log(st, <<"get_repository", repo, "raised">>), "StoreError")
    ELSE Log(st, <<"get_repository", repo, "ok">>)

\* repo_info.get("creation_date"), then the date returned
CreatedFrom(st, creation_date, tz) ==
    [st |-> st, value |-> IF Ok(st) THEN date_fromtimestamp(creation_date, tz) ELSE NoDate]

\* created(path), a the (repo, ref, key) of _split_path; creation_date is what the
\* store holds for the repository
created_at(st, a, creation_date, tz, fail) ==
    IF a[3] # EmptyStr THEN [st |-> Raise(st, "NotImplementedError"), value |-> NoDate]
    ELSE IF a[2] # EmptyStr THEN [st |-> Raise(st, "NotImplementedError"), value |-> NoDate]
    ELSE CreatedFrom(get_repository(st, a[1], fail), creation_date, tz)

created(st, path, creation_date, tz, fail) ==
    created_at(st, _split_path(path), creation_date, tz, fail)

-----------------------------------------------------------------------------
(* The store's listing endpoint: objects.list_objects(repo, ref, prefix,   *)
(* delimiter="/", after=...).  A record is [path, path_type, size_bytes].  *)

\* the order of the symbols of a key
Alphabet == <<SLASH, "a", "b", "c", "d">>

Ord(c) == CHOOSE i \in 1..Len(Alphabet) : Alphabet[i] = c

\* x < y for keys, as the store orders them
RECURSIVE LexLess(_, _)
LexLess(x, y) ==
    IF x = <<>> THEN y # <<>>
    ELSE IF y = <<>> THEN FALSE
    ELSE IF x[1] = y[1] THEN LexLess(Tail(x), Tail(y))
    ELSE Ord(x[1]) < Ord(y[1])

\* the record of a key under a prefix: the key itself, or, when what follows the
\* prefix holds a "/", the common prefix up to that "/"
FoldRest(prefix, rest, size) ==
    IF HasSlash(rest)
    THEN [path |-> prefix \o SubSeq(rest, 1, FirstSlash(rest)), path_type |-> "common_prefix",
          size_bytes |-> 0]
    ELSE [path |-> prefix \o rest, path_type |-> "object", size_bytes |-> size]

Fold(prefix, key, size) == FoldRest(prefix, SubSeq(key, Len(prefix) + 1, Len(key)), size)

\* the records under a prefix, unordered
RecordSet(objs, repo, ref, prefix) ==
    {Fold(prefix, o[3], Len(objs[o])) :
        o \in {x \in DOMAIN objs : x[1] = repo /\ x[2] = ref /\ StartsWith(x[3], prefix)}}

LeastOf(S) == CHOOSE m \in S : \A r \in S : m.path = r.path \/ LexLess(m.path, r.path)

RECURSIVE Sorted(_)
SortedFrom(S, m) == <<m>> \o Sorted(S \ {m})

Sorted(S) == IF S = {} THEN <<>> ELSE SortedFrom(S, LeastOf(S))

\* the whole listing of a prefix, in the store's order
Listing(objs, repo, ref, prefix) == Sorted(RecordSet(objs, repo, ref, prefix))

\* the records after a cursor
After(listing, after) ==
    IF after = None THEN listing
    ELSE SelectSeq(listing, LAMBDA r : LexLess(after, r.path))

\* a page of at most size records, with its pagination
PageOf(rest, size) ==
    [results     |-> SubSeq(rest, 1, Min(size, Len(rest))),
     has_more    |-> Len(rest) > size,
     next_offset |-> IF rest = <<>> THEN EmptyStr ELSE rest[Min(size, Len(rest))].path]

\* list_objects: a store whose cursor advances serves the records after the cursor;
\* one whose cursor is stuck serves its first page whatever the cursor
list_objects(objs, repo, ref, prefix, after, size, stuck) ==
    PageOf(After(Listing(objs, repo, ref, prefix), IF stuck THEN None ELSE after), size)

-----------------------------------------------------------------------------
(* LakeFSNativeFS._ls, one store call at a time.  The call in progress is   *)
(* the record ls:                                                          *)
(*   pc: "idle", "loop" (in the while loop), "done" (returned),            *)
(*       "error" (raised);                                                 *)
(*   repo, ref, key, detail: the arguments of the _ls frame that runs;     *)
(*   records, after: its locals;                                           *)
(*   result: what ls returned;                                             *)
(*   key0, detail0: the arguments ls was called with; calls: the store     *)
(*   calls made for it, each [prefix, after, has_more, next_offset];       *)
(*   prev: the call that returned before this one, [key, detail, result];  *)
(*   pageSize, stuck: the store's page size, and whether its cursor is     *)
(*   stuck.                                                                *)

NoPrev == [key |-> None, detail |-> TRUE, result |-> <<>>]

LsIdle ==
    [pc |-> "idle", repo |-> EmptyStr, ref |-> EmptyStr, key |-> EmptyStr, detail |-> TRUE,
     records |-> <<>>, after |-> None, result |-> <<>>, key0 |-> EmptyStr, detail0 |-> TRUE,
     calls |-> <<>>, prev |-> NoPrev, pageSize |-> 1, stuck |-> FALSE]

\* _object_stat_to_entry(repo, ref, stat)
_object_stat_to_entry(repo, ref, stat) ==
    IF stat.path_type = "object"
    THEN [Key |-> FullKey(repo, ref, stat.path), name |-> FullKey(repo, ref, stat.path),
          type |-> "file", size |-> stat.size_bytes, StorageClass |-> "STANDARD"]
    ELSE [Key |-> _remove_suffix(FullKey(repo, ref, stat.path)),
          name |-> _remove_suffix(FullKey(repo, ref, stat.path)),
          type |-> "directory", size |-> 0, StorageClass |-> "DIRECTORY"]

\* an element of the list returned without detail: a bare key string
BareKey(repo, ref, d) ==
    [str |-> IF d.path_type = "object" THEN _remove_suffix(FullKey(repo, ref, d.path))
             ELSE FullKey(repo, ref, d.path)]

\* the value _ls returns from its records
Render(repo, ref, records, detail) ==
    IF detail THEN [i \in 1..Len(records) |-> _object_stat_to_entry(repo, ref, records[i])]
    ELSE [i \in 1..Len(records) |-> BareKey(repo, ref, records[i])]

\* len(records) == 1 and the record's path ends with "/" and is no object
Degenerate(records) ==
    /\ Len(records) = 1
    /\ EndsWith(records[1].path, <<SLASH>>)
    /\ records[1].path_type # "object"

\* an accumulator that keeps the last page only
AccumulateLast(records, results) == results

\* records += current.get("results")
Accumulate(records, results) == records \o results

\* return self._ls(repo, ref, key + '/'): a new frame, detail at its default
Reissue(l) ==
    [l EXCEPT !.key = @ \o <<SLASH>>, !.detail = TRUE, !.records = <<>>, !.after = None]

\* after the loop: the re-issue, or the value returned
AfterLoop(l) ==
    IF Degenerate(l.records) THEN Reissue(l)
    ELSE [l EXCEPT !.pc = "done", !.result = Render(l.repo, l.ref, l.records, l.detail)]

\* one turn of the while loop on the page the store returned
Turn(l, page) ==
    IF ~page.has_more
    THEN AfterLoop([l EXCEPT !.records = Accumulate(@, page.results)])
    ELSE [l EXCEPT !.records = Accumulate(@, page.results), !.after = page.next_offset]

\* the store call of a turn, and the turn
Called(l, page) ==
    Turn([l EXCEPT !.calls = Append(@, [prefix |-> l.key, after |-> l.after,
                                        has_more |-> page.has_more,
                                        next_offset |-> page.next_offset])],
         page)

\* ls(path, detail) up to its first store call
ls_begin(l, a, detail) ==
    [l EXCEPT !.pc = "loop", !.repo = a[1], !.ref = a[2], !.key = a[3], !.detail = detail,
              !.records = <<>>, !.after = None, !.result = <<>>, !.key0 = a[3],
              !.detail0 = detail, !.calls = <<>>,
              !.prev = IF l.pc = "done"
                       THEN [key |-> l.key0, detail |-> l.detail0, result |-> l.result]
                       ELSE NoPrev]

-----------------------------------------------------------------------------
(* The universe of the filesystem specifications                           *)

\* the depth of the deepest key
MaxDepth == 2

\* the longest list of paths given to _rm or rm
MaxList == 2

Repo == <<"r">>

Ref == <<"m">>

\* "a/a/.../a" with n segments; "a/.../a/b" with n segments
RECURSIVE Chain(_)
Chain(n) == IF n = 1 THEN <<"a">> ELSE <<"a", SLASH>> \o Chain(n - 1)

ChainB(n) == SubSeq(Chain(n), 1, 2 * n - 2) \o <<"b">>

Keys == {Chain(n) : n \in 1..MaxDepth} \cup {ChainB(n) : n \in 1..MaxDepth}

ObjPaths == {FullKey(Repo, Ref, k) : k \in Keys}

\* the paths operations are given: the object paths, and a directory with its "/"
InputPaths == ObjPaths \cup {FullKey(Repo, Ref, <<"a", SLASH>>)}

\* the paths a cached listing may be keyed by
CacheKeys == {EmptyStr, Repo, <<"q">>, Repo \o <<SLASH>> \o Ref, Repo \o <<SLASH, "n">>} \cup ObjPaths

\* the cache contents an operation may start from: every listing cached, none,
\* exactly one, all but one (eviction treats each key on its own)
CacheChoices == {{}, CacheKeys} \cup {{k} : k \in CacheKeys} \cup {CacheKeys \ {k} : k \in CacheKeys}

\* the store contents an operation may start from
StoreChoices == {{}} \cup {{Addr(Repo, Ref, k)} : k \in Keys} \cup {{Addr(Repo, Ref, k) : k \in Keys}}

\* lists of 1..MaxList input paths
PathLists == UNION {[1..n -> ObjPaths] : n \in 1..MaxList}

\* what expand_path(path, recursive) may return: [path] stripped when not recursive,
\* and when recursive the paths found under it (here: any one or two object paths)
Expansions(path, recursive) ==
    IF ~recursive THEN {<<_strip_protocol(path)>>}
    ELSE {<<p>> : p \in ObjPaths} \cup {<<p, q>> : p \in ObjPaths, q \in ObjPaths}

\* the largest block_size a file is opened with, and the most bytes written to one file
MaxBlock == 3

MaxTotal == 4

\* the contents of a local file given to put_file
LocalFiles == {[isdir |-> TRUE, content |-> <<>>], [isdir |-> FALSE, content |-> <<>>],
               [isdir |-> FALSE, content |-> <<7, 8>>]}

\* the bytes a file is given by its next write of n bytes: byte k of the stream of
\* file h is 10 * h + k, so that every byte tells its file and its place
Stream(h, from, n) == [i \in 1..n |-> 10 * h + from + i]

NoOp == [name |-> "none", arg |-> <<>>, status |-> "ok", before |-> <<>>]

NoHandles == <<>>

Start == [objects |-> objects, dircache |-> dircache, trace |-> <<>>, status |-> "ok"]

\* the operation has returned (or raised): its effects and its outcome become the state
Returns(st, name, arg) ==
    /\ objects' = st.objects
    /\ dircache' = st.dircache
    /\ trace' = st.trace
    /\ lastOp' = [name |-> name, arg |-> arg, status |-> st.status,
                  before |-> [objects |-> objects, dircache |-> dircache]]

Idle == lastOp.name = "none" /\ handles = NoHandles

InitFs ==
    /\ \E S \in StoreChoices : objects = [a \in S |-> <<>>]
    /\ dircache \in CacheChoices
    /\ trace = <<>>
    /\ lastOp = NoOp
    /\ handles = NoHandles
    /\ ls = LsIdle

Do_rm ==
    /\ Idle
    /\ \E arg \in {[list |-> FALSE, path |-> p] : p \in InputPaths}
                 \cup {[list |-> TRUE, paths |-> ps] : ps \in PathLists} :
         \E failAt \in 0..MaxList :
            Returns(_rm(Start, arg, failAt), "_rm", arg @@ [failAt |-> failAt])
    /\ UNCHANGED <<handles, ls>>

Do_rm_expand ==
    /\ Idle
    /\ \/ \E p \in InputPaths, recursive \in BOOLEAN :
            \E e \in Expansions(p, recursive), failAt \in 0..1 :
               Returns(rm(Start, [list |-> FALSE, path |-> p, expanded |-> e], failAt), "rm",
                       [list |-> FALSE, path |-> p, expanded |-> e, failAt |-> failAt])
       \/ \E ps \in PathLists, failAt \in 0..MaxList :
            Returns(rm(Start, [list |-> TRUE, paths |-> ps], failAt), "rm",
                    [list |-> TRUE, paths |-> ps, failAt |-> failAt])
    /\ UNCHANGED <<handles, ls>>

Do_put_file ==
    /\ Idle
    /\ \E p \in InputPaths, local \in LocalFiles, fail \in BOOLEAN :
         Returns(put_file(Start, local, p, fail), "put_file", [path |-> p, local |-> local])
    /\ UNCHANGED <<handles, ls>>

Do_pipe_file ==
    /\ Idle
    /\ \E p \in InputPaths, value \in {<<>>, <<7, 8>>}, fail \in BOOLEAN :
         Returns(pipe_file(Start, p, value, fail), "pipe_file", [path |-> p, value |-> value])
    /\ UNCHANGED <<handles, ls>>

Do_touch ==
    /\ Idle
    /\ \E p \in InputPaths, truncate \in BOOLEAN, lsRaises \in BOOLEAN, fail \in BOOLEAN :
         Returns(touch(Start, p, truncate, lsRaises, fail), "touch",
                 [path |-> p, truncate |-> truncate, lsRaises |-> lsRaises])
    /\ UNCHANGED <<handles, ls>>

Do_invalidate_cache ==
    /\ Idle
    /\ \E p \in CacheKeys \cup InputPaths \cup {<<SLASH>> \o q : q \in ObjPaths} \cup {None} :
         Returns(invalidate_cache(Start, p), "invalidate_cache", [path |-> p])
    /\ UNCHANGED <<handles, ls>>

\* an operation on file h has returned (or raised)
FileReturns(sf, h, name) ==
    /\ handles' = [handles EXCEPT ![h] = sf.f]
    /\ Returns(sf.st, name, [h |-> h, path |-> handles[h].path])

\* fs.open(path, "wb", block_size=bs) as file h
Open(h, p, bs) ==
    /\ h \notin DOMAIN handles
    /\ handles' = handles @@ (h :> NewFile(p, bs))
    /\ Returns(Start, "open", [h |-> h, path |-> p])
    /\ UNCHANGED ls

\* f.write(data) with the next n bytes of the file's stream
Write(h, n) ==
    /\ h \in DOMAIN handles
    /\ ~handles[h].closed /\ ~handles[h].forced
    /\ Len(handles[h].written) + n <= MaxTotal
    /\ FileReturns(write(Pair(Start, handles[h]), Stream(h, Len(handles[h].written), n)),
                   h, "write")
    /\ UNCHANGED ls

\* f.close()
Close(h, fail) ==
    /\ h \in DOMAIN handles
    /\ ~handles[h].closed
    /\ FileReturns(close(Pair(Start, handles[h]), fail), h, "close")
    /\ UNCHANGED ls

\* one write-mode file, from open to close, with nothing else in between
InSession == lastOp.name \in {"none", "open", "write"}

FsOpen == InSession /\ \E p \in InputPaths, bs \in 1..MaxBlock : Open(1, p, bs)

FsWrite == InSession /\ \E n \in 1..MaxTotal : Write(1, n)

FsClose == InSession /\ \E fail \in BOOLEAN : Close(1, fail)

NextFs ==
    \/ Do_rm
    \/ Do_rm_expand
    \/ Do_put_file
    \/ Do_pipe_file
    \/ Do_touch
    \/ Do_invalidate_cache
    \/ FsOpen
    \/ FsWrite
    \/ FsClose

SpecFs == InitFs /\ [][NextFs]_vars

-----------------------------------------------------------------------------
(* Claims about the directory cache                                        *)

\* the directories above path: its prefixes that end before a "/", the root ""
\* (where the walk of invalidate stops) not among them
AncestorDirs(path) ==
    LET p == _strip_protocol(path)
    IN  {SubSeq(p, 1, i - 1) : i \in {j \in 2..Len(p) : p[j] = SLASH}}

\* the paths an operation was given
ArgPaths(op) == IF "list" \in DOMAIN op.arg /\ op.arg.list THEN Range(op.arg.paths) ELSE {op.arg.path}

Returned(names) == lastOp.name \in names /\ lastOp.status = "ok"

\* C1: once remove(P) has returned successfully (_rm or rm, a path or a list of
\* paths), the directory cache holds no entry for P's parent nor for any directory
\* above P, whatever it held before.
C1_RemoveEvictsAncestors ==
    Returned({"_rm", "rm"}) =>
        \A P \in ArgPaths(lastOp) : \A d \in AncestorDirs(P) : d \notin dircache

\* a list delete has returned, and the cache held the listing of a grandparent of
\* one of the paths before it
C1_Witness ==
    /\ Returned({"_rm", "rm"})
    /\ lastOp.arg.list
    /\ \E P \in ArgPaths(lastOp) : _parent(_parent(P)) \in lastOp.before.dircache
    /\ dircache # {}

IsUpload(ev) == ev[1] = "upload_object"

\* the address an operation on path P uploads to
AddrOf(P) == LET a == _split_path(_strip_protocol(P)) IN Addr(a[1], a[2], a[3])

Mutations == {"close", "touch", "put_file", "pipe_file"}

\* C2: when a non-delete mutating operation on P (close of a write-mode file, touch,
\* put_file, pipe_file) has returned, the cache holds no entry for P's parent nor for
\* any directory above P, and every upload call of the operation is followed by an
\* invalidation of P's parent.
C2_MutationEvictsAfterUpload ==
    Returned(Mutations) /\ trace # <<>> =>
        LET P == lastOp.arg.path
        IN  /\ \A d \in AncestorDirs(P) : d \notin dircache
            /\ \A i \in 1..Len(trace) :
                   IsUpload(trace[i]) =>
                       \E j \in (i + 1)..Len(trace) : trace[j] = <<"invalidate_cache", _parent(P)>>

\* a write-mode file was closed: its upload was issued, and the parent's listing was
\* cached before
C2_Witness ==
    /\ Returned({"close"})
    /\ \E i \in 1..Len(trace) : IsUpload(trace[i])
    /\ _parent(lastOp.arg.path) \in lastOp.before.dircache
    /\ handles[1].written # <<>>

-----------------------------------------------------------------------------
(* Batch delete: rm of a directory whose expansion is n keys               *)

\* the most keys of one batch, and how far from a multiple of the ceiling the
\* sizes tried lie
MaxKeys == 2500

Slack == 8

BatchSizes ==
    {n \in 1..MaxKeys : \/ n % ChunkSize <= Slack
                        \/ n % ChunkSize >= ChunkSize - Slack
                        \/ n = MaxKeys}

BatchDir == FullKey(Repo, Ref, <<"d">>)

\* key i of the batch: "d/<i>"
BatchKey(i) == <<"d", SLASH, ToString(i)>>

\* what expand_path returns for the directory: the paths of its n keys
BatchExpansion(n) == [i \in 1..n |-> FullKey(Repo, Ref, BatchKey(i))]

\* the store holds n keys under the directory and one key beside it
InitBatch ==
    /\ \E n \in BatchSizes :
          objects = [a \in {Addr(Repo, Ref, BatchKey(i)) : i \in 1..n} \cup {Addr(Repo, Ref, <<"e">>)}
                        |-> <<>>]
    /\ dircache = {Repo, _parent(BatchDir), BatchDir}
    /\ trace = <<>>
    /\ lastOp = NoOp
    /\ handles = NoHandles
    /\ ls = LsIdle

BatchCount == Cardinality(DOMAIN objects) - 1

\* rm(BatchDir, recursive=True); the delete_objects call of chunk failAt raises
\* (failAt = 0: none does)
Do_rm_batch ==
    /\ Idle
    /\ \E failAt \in 0..NumChunks(BatchCount, ChunkSize) :
          Returns(rm(Start, [list |-> FALSE, path |-> BatchDir,
                             expanded |-> BatchExpansion(BatchCount)], failAt),
                  "rm", [list |-> FALSE, path |-> BatchDir, n |-> BatchCount, failAt |-> failAt])
    /\ UNCHANGED <<handles, ls>>

NextBatch == Do_rm_batch

SpecBatch == InitBatch /\ [][NextBatch]_vars

\* the delete_objects calls of the trace, in call order
RECURSIVE SelectCalls(_, _)
SelectCalls(tr, name) ==
    IF tr = <<>> THEN <<>>
    ELSE IF Head(tr)[1] = name THEN <<Head(tr)>> \o SelectCalls(Tail(tr), name)
    ELSE SelectCalls(Tail(tr), name)

BulkCalls == SelectCalls(trace, "delete_objects")

\* the key lists of the calls, concatenated in call order
RECURSIVE ConcatKeys(_)
ConcatKeys(calls) == IF calls = <<>> THEN <<>> ELSE Head(calls)[4] \o ConcatKeys(Tail(calls))

CeilDiv(n, d) == (n + d - 1) \div d

\* C7: a batch delete of n keys that returns has issued exactly ceil(n/1000)
\* delete_objects calls, each of at most 1000 keys, whose key lists concatenated in
\* call order are the expanded key sequence; the parent is invalidated once, after
\* the last call; 2500 keys go out as 1000, 1000 and 500.
C7_BatchChunks ==
    Returned({"rm"}) =>
        LET n == lastOp.arg.n
        IN  /\ Len(BulkCalls) = CeilDiv(n, 1000)
            /\ \A c \in 1..Len(BulkCalls) : Len(BulkCalls[c][4]) <= 1000
            /\ ConcatKeys(BulkCalls) = [i \in 1..n |-> BatchKey(i)]
            /\ Len(trace) = Len(BulkCalls) + 1
            /\ trace[Len(trace)] = <<"invalidate_cache", _parent(BatchDir)>>
            /\ n = 2500 => [c \in 1..Len(BulkCalls) |-> Len(BulkCalls[c][4])] = <<1000, 1000, 500>>

\* the batch of 2500 keys has returned
C7_Witness == Returned({"rm"}) /\ lastOp.arg.n = 2500 /\ Len(BulkCalls) = 3 /\ BatchCount = 0

\* C8: when the delete_objects call of chunk i raises, the error reaches the caller,
\* no call is issued for a chunk after i, and the keys of the chunks before i are gone
\* from the store.
C8_FailedChunkAborts ==
    lastOp.name = "rm" /\ lastOp.arg.failAt > 0 =>
        LET i == lastOp.arg.failAt
        IN  /\ lastOp.status = "StoreError"
            /\ Len(BulkCalls) = i
            /\ BulkCalls[i][5] = "raised"
            /\ \A k \in 1..((i - 1) * 1000) : Addr(Repo, Ref, BatchKey(k)) \notin DOMAIN objects

\* the third chunk of a batch failed after two chunks were deleted
C8_Witness ==
    /\ lastOp.name = "rm" /\ lastOp.arg.failAt = 3
    /\ lastOp.status = "StoreError"
    /\ Addr(Repo, Ref, BatchKey(1)) \notin DOMAIN objects
    /\ Addr(Repo, Ref, BatchKey(2001)) \in DOMAIN objects

-----------------------------------------------------------------------------
(* Listing                                                                 *)

\* the largest page size of the store, and the most store calls of one ls
MaxPage == 2

MaxCalls == 8

\* the keys the store may hold, and the prefixes listed
LsKeys == {<<"a">>, <<"a", "b">>, <<"b">>, <<"c">>, <<"d">>, <<"a", SLASH, "a">>, <<"a", SLASH, "b">>,
           <<"a", SLASH, "a", SLASH, "b">>}

LsPrefixes == {EmptyStr, <<"a">>, <<"a", SLASH>>, <<"a", SLASH, "a">>, <<"a", SLASH, "a", SLASH>>,
               <<"b">>}

InitLs ==
    /\ \E S \in SUBSET LsKeys : objects = [a \in {Addr(Repo, Ref, k) : k \in S} |-> <<>>]
    /\ \E size \in 1..MaxPage, stuck \in BOOLEAN :
          ls = [LsIdle EXCEPT !.pageSize = size, !.stuck = stuck]
    /\ dircache = {}
    /\ trace = <<>>
    /\ lastOp = NoOp
    /\ handles = NoHandles

\* ls(path, detail) is called
LsCall ==
    /\ ls.pc = "idle"
    /\ \E k \in LsPrefixes, detail \in BOOLEAN :
          ls' = ls_begin(ls, _split_path(FullKey(Repo, Ref, k)), detail)
    /\ UNCHANGED <<objects, dircache, trace, lastOp, handles>>

\* after ls(K, detail) returned, ls(K + "/", detail) is called
LsCallWithSlash ==
    /\ ls.pc = "done"
    /\ ls.prev = NoPrev
    /\ ~EndsWith(ls.key0, <<SLASH>>)
    /\ ls' = ls_begin(ls, _split_path(FullKey(Repo, Ref, ls.key0 \o <<SLASH>>)), ls.detail0)
    /\ UNCHANGED <<objects, dircache, trace, lastOp, handles>>

\* one turn of the loop: a list_objects call and what follows it
LsTurn ==
    /\ ls.pc = "loop"
    /\ Len(ls.calls) < MaxCalls
    /\ ls' = Called(ls, list_objects(objects, ls.repo, ls.ref, ls.key, ls.after,
                                     ls.pageSize, ls.stuck))
    /\ UNCHANGED <<objects, dircache, trace, lastOp, handles>>

NextLs == LsCall \/ LsCallWithSlash \/ LsTurn

SpecLs == InitLs /\ [][NextLs]_vars

\* the whole listing of the prefix ls was called with, and of a prefix K
ListingOf(K) == Listing(objects, Repo, Ref, K)

Listing0 == ListingOf(ls.key0)

\* the store calls made with a prefix
CallsFor(K) == SelectSeq(ls.calls, LAMBDA c : c.prefix = K)

\* the pages of n records at page size: one page for no record
Pages(n, size) == IF n = 0 THEN 1 ELSE CeilDiv(n, size)

\* every call but the first carries the cursor of the page before it
Chained(calls) ==
    /\ calls # <<>> => calls[1].after = None
    /\ \A i \in 2..Len(calls) : calls[i].after = calls[i - 1].next_offset

LsReturned == ls.pc = "done" /\ ~ls.stuck

Expected(K) ==
    IF ~EndsWith(K, <<SLASH>>) /\ Degenerate(ListingOf(K)) THEN ListingOf(K \o <<SLASH>>)
    ELSE ListingOf(K)

\* C4: the records ls returns are exactly the objects and common prefixes the store
\* holds under the prefix, one path segment deep, also for a prefix that ends with
\* "/" and whose only child is a directory.
C4_ListsExactly == LsReturned => ls.records = Expected(ls.key0)

\* C5: when the records under K (no trailing "/") are one directory marker,
\* ls(K, detail) and ls(K + "/", detail) return the same value, for both values of
\* detail.
C5_SlashIdempotent ==
    /\ LsReturned
    /\ ls.prev # NoPrev
    /\ ls.key0 = ls.prev.key \o <<SLASH>>
    /\ ls.detail0 = ls.prev.detail
    /\ Degenerate(ListingOf(ls.prev.key))
    => ls.prev.result = ls.result

\* a response that reports more pages with the cursor it was called with
Stalled(c) == c.has_more /\ c.next_offset = c.after

\* C6: ls ends with a protocol error once a response reports more pages while the
\* cursor has not advanced.
C6_StuckCursorIsFatal ==
    (\E i \in 1..Len(ls.calls) : Stalled(ls.calls[i])) => ls.pc = "error"

-----------------------------------------------------------------------------
(* Claims about the write-mode file (file 1 of SpecFs)                     *)

UploadedOk(tr) == \E i \in 1..Len(tr) : IsUpload(tr[i]) /\ tr[i][4] = "ok"

\* the close of file 1 has returned, its upload done, on a path that was new
ClosedNew ==
    /\ Returned({"close"})
    /\ UploadedOk(trace)
    /\ AddrOf(lastOp.arg.path) \notin DOMAIN lastOp.before.objects

\* C9: after bytes B were written to a write-mode file on a new path and the file was
\* closed, the object at the path is B, and _fetch_range(0, len(B)) returns B.
C9_WriteReadRoundTrip ==
    ClosedNew =>
        /\ AddrOf(lastOp.arg.path) \in DOMAIN objects
        /\ objects[AddrOf(lastOp.arg.path)] = handles[1].written
        /\ _fetch_range(objects, lastOp.arg.path, Len(handles[1].written), 0,
                        Len(handles[1].written)) = handles[1].written

NoUpload(tr) == \A i \in 1..Len(tr) : ~IsUpload(tr[i])

\* C10: from open to the final chunk no upload call is issued for the file and the
\* store is as it was, whatever chunks were spooled; one upload call is issued, at
\* the final chunk, and the spool is released only after it.
C10_CommitAtomic ==
    1 \in DOMAIN handles =>
        /\ ~handles[1].forced =>
              /\ handles[1].uploads = 0
              /\ NoUpload(trace)
              /\ objects = lastOp.before.objects
              /\ ~handles[1].tempfile.closed
        /\ handles[1].forced => handles[1].uploads = 1
        /\ handles[1].tempfile.closed => UploadedOk(trace)

\* a chunk was spooled before the final one: the file is still open and holds
\* nothing in its buffer, and nothing was uploaded
C10_Witness ==
    /\ 1 \in DOMAIN handles
    /\ ~handles[1].forced
    /\ handles[1].offset > 0
    /\ handles[1].tempfile.created
    /\ lastOp.name = "write"

-----------------------------------------------------------------------------
(* Claims about pipe_file, touch and invalidate_cache                      *)

Uploads(tr) == SelectSeq(tr, IsUpload)

\* C11: after pipe_file(path, value) has returned, the object at path holds exactly
\* value, one upload call was issued, and the parent of path was invalidated.
C11_PipeFileStoresValue ==
    Returned({"pipe_file"}) =>
        /\ _split_path(lastOp.arg.path) \in DOMAIN objects
        /\ objects[_split_path(lastOp.arg.path)] = lastOp.arg.value
        /\ Len(Uploads(trace)) = 1
        /\ trace[Len(trace)] = <<"invalidate_cache", _parent(lastOp.arg.path)>>

\* the path held an object or a directory before the operation
ExistedBefore(P) == ExistsAt(lastOp.before.objects, AddrOf(P))

Normalized(path) == LStrip(_strip_protocol(path))

\* the entries invalidate_cache(path) is to remove: the normalized path and the
\* directories above it
Evicted(path) == {Normalized(path)} \cup AncestorDirs(Normalized(path))

\* C18: invalidate_cache(None) empties the cache; invalidate_cache(path) removes
\* exactly the entries keyed by the normalized path and by the directories above
\* it and leaves every other entry as it was; each step of the walk up the parents
\* shortens the path, so the walk ends.
C18_InvalidateFrame ==
    Returned({"invalidate_cache"}) =>
        /\ lastOp.arg.path = None => dircache = {}
        /\ lastOp.arg.path # None =>
              /\ dircache = lastOp.before.dircache \ Evicted(lastOp.arg.path)
              /\ \A i \in 1..Len(Normalized(lastOp.arg.path)) :
                     Len(_parent(SubSeq(Normalized(lastOp.arg.path), 1, i))) < i

\* a path was invalidated in a cache that held its parent, a sibling, a descendant
\* and entries of another repository and another ref: the parent is gone, the
\* others are there
C18_Witness ==
    /\ Returned({"invalidate_cache"})
    /\ lastOp.arg.path = FullKey(Repo, Ref, <<"a">>)
    /\ lastOp.before.dircache = CacheKeys
    /\ Repo \o <<SLASH>> \o Ref \notin dircache
    /\ {FullKey(Repo, Ref, <<"b">>), FullKey(Repo, Ref, <<"a", SLASH, "a">>), <<"q">>,
        Repo \o <<SLASH, "n">>, EmptyStr} \subseteq dircache

-----------------------------------------------------------------------------
(* Claims about a delete that fails part of the way                        *)

\* the addresses the operation that ran last has deleted
Deleted == (DOMAIN lastOp.before.objects) \ DOMAIN objects

\* C19: when a delete (rm or _rm) leaves through an error after the store has
\* deleted at least one key, the cache holds no entry for the parent of a deleted
\* key nor for any directory above it.
C19_FailedDeleteEvicts ==
    lastOp.name \in {"rm", "_rm"} /\ lastOp.status # "ok" /\ Deleted # {} =>
        \A a \in Deleted : \A d \in AncestorDirs(FullKey(a[1], a[2], a[3])) : d \notin dircache

-----------------------------------------------------------------------------
(* Calls that return a value: _fetch_range and get_object on a read-mode   *)
(* file, created, _split_path                                              *)

\* the longest object read, and how far outside 0..size the bounds of a range lie
MaxSize == 3

MaxOver == 2

\* the longest repository or ref name, and the longest key, split
MaxName == 2

MaxKeyLen == 3

ReadPath == FullKey(Repo, Ref, <<"a">>)

\* fs.open(path, "rb"): size is the size the listing gave when the file was opened
ReadFile(path, size) == [path |-> path, mode |-> "rb", size |-> size]

\* the object read holds the bytes 1..n
Contents == {[i \in 1..n |-> i] : n \in 0..MaxSize}

\* strings of 1..n symbols without "/"; strings of 0..n symbols, "/" among them
Names(n) == UNION {[1..k -> {"a", "b"}] : k \in 1..n}

KeyStrings(n) == UNION {[1..k -> {"a", SLASH}] : k \in 0..n}

\* the paths created is given: a repository, with a ref, with a key, with a key but
\* no ref
CreatedPaths == {Repo, Repo \o <<SLASH>>, Repo \o <<SLASH>> \o Ref, Repo \o <<SLASH>> \o Ref \o <<SLASH>>,
                 FullKey(Repo, Ref, <<"a">>), FullKey(Repo, EmptyStr, <<"a">>),
                 FullKey(Repo, Ref, <<"a", SLASH, "b">>)}

\* creation dates of a repository, and the local time zones (seconds east of UTC)
Stamps == {0, 1, DaySeconds - 1, DaySeconds, DaySeconds + 3600, 2 * DaySeconds}

Zones == {-3600, 0, 3600}

\* a read-mode file is open on an object; the object may have been deleted since
InitCalls ==
    /\ \E c \in Contents, gone \in BOOLEAN :
          /\ objects = [a \in (IF gone THEN {} ELSE {_split_path(ReadPath)}) |-> c]
          /\ handles = <<ReadFile(ReadPath, Len(c))>>
    /\ dircache = {}
    /\ trace = <<>>
    /\ lastOp = NoOp
    /\ ls = LsIdle

\* the call has returned (or raised) with a value
ValueReturns(r, name, arg) ==
    /\ objects' = r.st.objects
    /\ dircache' = r.st.dircache
    /\ trace' = r.st.trace
    /\ lastOp' = [name |-> name, arg |-> arg, status |-> r.st.status,
                  before |-> [objects |-> objects, dircache |-> dircache], value |-> r.value]
    /\ UNCHANGED <<handles, ls>>

NoCallYet == lastOp.name = "none"

Do_fetch_range ==
    /\ NoCallYet
    /\ \E start \in (-MaxOver)..(MaxSize + MaxOver), end \in (-MaxOver)..(MaxSize + MaxOver) :
          ValueReturns(fetch_range(Start, handles[1].path, handles[1].size, start, end),
                       "_fetch_range", [path |-> handles[1].path, start |-> start, end |-> end])

Do_get_object ==
    /\ NoCallYet
    /\ ValueReturns(Value(Log(Start, <<"get_object", _split_path(handles[1].path)>>),
                          get_object_full(objects, handles[1].path)),
                    "get_object", [path |-> handles[1].path])

Do_created ==
    /\ NoCallYet
    /\ \E p \in CreatedPaths, creation_date \in Stamps, tz \in Zones, fail \in BOOLEAN :
          ValueReturns(created(Start, p, creation_date, tz, fail), "created",
                       [path |-> p, creation_date |-> creation_date, tz |-> tz])

\* the path repo/ref/key is split, and the three segments joined and split again
SplitTwice(first) == [first |-> first, second |-> _split_path(FullKey(first[1], first[2], first[3]))]

Do_split_path ==
    /\ NoCallYet
    /\ \E repo \in Names(MaxName), ref \in Names(MaxName), key \in KeyStrings(MaxKeyLen) :
          ValueReturns([st |-> Start, value |-> SplitTwice(_split_path(FullKey(repo, ref, key)))],
                       "_split_path", [repo |-> repo, ref |-> ref, key |-> key])

NextCalls ==
    \/ Do_fetch_range
    \/ Do_get_object
    \/ Do_created
    \/ Do_split_path

SpecCalls == InitCalls /\ [][NextCalls]_vars

\* _fetch_range has returned; the object the file was opened on is in the store
Fetched == lastOp.name = "_fetch_range"

FetchedPresent == Fetched /\ _split_path(lastOp.arg.path) \in DOMAIN objects

\* the size of the file read, and the bytes of its object
SizeRead == handles[1].size

BytesRead == objects[_split_path(lastOp.arg.path)]

\* C12: _fetch_range(start, end) on a read-mode file of size n returns no bytes and
\* issues no get_object call when start >= n, whatever end is, and whenever the
\* clamped range [max(start, 0), min(end, n)) is empty.
C12_EmptyRangeNoCall ==
    Fetched /\ (\/ lastOp.arg.start >= SizeRead
                \/ Max(lastOp.arg.start, 0) >= Min(lastOp.arg.end, SizeRead)) =>
        /\ lastOp.value = <<>>
        /\ lastOp.status = "ok"
        /\ trace = <<>>

\* a range that starts at the size and ends beyond it, on a file of MaxSize bytes
C12_Witness ==
    /\ FetchedPresent
    /\ SizeRead = MaxSize
    /\ lastOp.arg.start = SizeRead
    /\ lastOp.arg.end > SizeRead
    /\ lastOp.value = <<>>

\* C13: for an object with content C of size n, _fetch_range(start, end) returns the
\* bytes C[max(start, 0) .. min(end, n)) for all start and end, negative start and
\* end beyond n among them; _fetch_range(0, n) returns C, as a full get_object read
\* does.
C13_RangeIsSlice ==
    FetchedPresent =>
        /\ lastOp.value = SubSeq(BytesRead, Max(lastOp.arg.start, 0) + 1,
                                 Min(lastOp.arg.end, SizeRead))
        /\ lastOp.arg.start = 0 /\ lastOp.arg.end = SizeRead =>
              /\ lastOp.value = BytesRead
              /\ lastOp.value = get_object_full(objects, lastOp.arg.path)

\* a range from before the start to beyond the end of an object of MaxSize bytes
C13_Witness ==
    /\ FetchedPresent
    /\ SizeRead = MaxSize
    /\ lastOp.arg.start < 0
    /\ lastOp.arg.end > SizeRead
    /\ Len(lastOp.value) = MaxSize
    /\ trace # <<>>

\* the (repo, ref, key) of the path created was given
CreatedArg == _split_path(lastOp.arg.path)

\* the instant a date stands for: the start of its day in local time
InstantOf(date, tz) == date.day * DaySeconds - tz

\* C15: created(path) raises NotImplementedError, and issues no store call, for every
\* path with a ref or a key; for a bare repository path it issues one
\* get_repository call and returns the creation timestamp of the repository.
C15_CreatedOnlyForRepository ==
    lastOp.name = "created" =>
        /\ CreatedArg[2] # EmptyStr \/ CreatedArg[3] # EmptyStr =>
              /\ lastOp.status = "NotImplementedError"
              /\ trace = <<>>
        /\ CreatedArg[2] = EmptyStr /\ CreatedArg[3] = EmptyStr =>
              /\ Len(trace) = 1
              /\ trace[1][1] = "get_repository"
              /\ lastOp.status = "ok" =>
                    InstantOf(lastOp.value, lastOp.arg.tz) = lastOp.arg.creation_date

\* C17: for every path repo/ref/key with a non-empty repo and ref that hold no "/",
\* and any key, _split_path returns (repo, ref, key), and the three segments joined
\* with "/" split into the same three segments.
C17_SplitRoundTrip ==
    lastOp.name = "_split_path" =>
        /\ lastOp.value.first = <<lastOp.arg.repo, lastOp.arg.ref, lastOp.arg.key>>
        /\ lastOp.value.second = lastOp.value.first

\* a key with two "/" was split off whole
C17_Witness ==
    /\ lastOp.name = "_split_path"
    /\ lastOp.arg.key = <<"a", SLASH, SLASH>>
    /\ Len(lastOp.arg.repo) = MaxName
    /\ lastOp.value.second[3] = lastOp.arg.key

-----------------------------------------------------------------------------
(* Two write-mode files open at once, their steps interleaved              *)

\* the most bytes written to each of the two files
MaxEach == 2

\* the paths the two files are opened on (the same one, or different ones)
TwoPaths == {FullKey(Repo, Ref, <<"a">>), FullKey(Repo, Ref, <<"b">>)}

InitFiles ==
    /\ objects = [a \in {} |-> <<>>]
    /\ dircache = {Repo \o <<SLASH>> \o Ref}
    /\ trace = <<>>
    /\ lastOp = NoOp
    /\ handles = NoHandles
    /\ ls = LsIdle

FilesOpen == \E h \in 1..2, p \in TwoPaths, bs \in 1..MaxEach : Open(h, p, bs)

FilesWrite ==
    \E h \in 1..2, n \in 1..MaxEach :
        /\ h \in DOMAIN handles
        /\ Len(handles[h].written) + n <= MaxEach
        /\ Write(h, n)

FilesClose == \E h \in 1..2, fail \in BOOLEAN : Close(h, fail)

NextFiles == FilesOpen \/ FilesWrite \/ FilesClose

SpecFiles == InitFiles /\ [][NextFiles]_vars

\* the close of a file has returned while the other file was open, written to or
\* closed
ClosedBesideOther ==
    /\ Returned({"close"})
    /\ DOMAIN handles = 1..2
    /\ handles[3 - lastOp.arg.h].written # <<>>

\* C16: with two write-mode files open at once (on one path or on two) and their
\* writes, chunk uploads and closes interleaved, the object the close of a file
\* commits is exactly the bytes written through that file, in write order, with no
\* byte of the other file.
C16_SpoolIsolation ==
    ClosedBesideOther =>
        \A i \in 1..Len(trace) :
            IsUpload(trace[i]) => trace[i][3] = handles[lastOp.arg.h].written

====
